---- MODULE Spec2Model ----
(***************************************************************************)
(* Paper Map Generator: the batch orchestration and single-item generation *)
(* state machines of server/routes.ts over the storage of server/storage.ts*)
(*                                                                         *)
(* Every `await storage.x(...)` of a handler is one atomic step of the     *)
(* model (one statement executed by the database); between two awaits of   *)
(* one handler the steps of every other handler may interleave, since      *)
(* `storage` is the DatabaseStorage whose calls complete on later turns of *)
(* the event loop.  DatabaseStorage catches a failing statement and        *)
(* returns undefined: a read yields undefined when the row is absent or    *)
(* when the select failed, and an update leaves the row as it was when the *)
(* row is absent or when the update failed.                                *)
(***************************************************************************)
EXTENDS Integers, Sequences, FiniteSets, TLC

\* ---------------------------------------------------------------- bounds
\* files sent with one POST /api/batch request
MaxFiles == 3
\* POST /api/batch/:id/process requests issued for the job
MaxStart == 2
\* POST /api/maps/:id/generate-pdf requests
MaxGen == 2
\* PATCH /api/maps/:id/calibration requests
MaxCalibrate == 2
\* start requests issued in the specification with fairness
MaxLiveStart == 1
\* image widths tried: around 0..MaxCols widths of an a4 page
MaxCols == 2
\* image heights tried: around 0..MaxRows heights of an a4 page
MaxRows == 1
\* scales tried: num / 2^e with num in -1..MaxScaleNum, e in 0..MaxScaleExp
MaxScaleNum == 2
MaxScaleExp == 1

VARIABLES
    mapProjects,   \* storage: project id -> row (map_projects)
    batchJobs,     \* storage: job id -> row (batch_jobs)
    batchReq,      \* the POST /api/batch request: its position and what it holds
    files,         \* the files of the POST /api/batch request: usable or not
    startReq,      \* the POST /api/batch/:id/process requests
    worker,        \* the processBatchJob call started by each start request
    genReq,        \* the POST /api/maps/:id/generate-pdf requests
    calibrations,  \* number of calibration requests answered so far
    image,         \* the project a grid is computed for: image size, scale, settings
    gridLayout,    \* the grid computed for image
    pageIndex,     \* the next tile to crop
    crops,         \* the crop rectangles of the tiles cropped so far
    doc,           \* the document generatePDF writes: its state and its pages
    fileInfo       \* what the success screen shows for the project

batchVars == <<batchJobs, batchReq, files, startReq, worker>>
singleVars == <<genReq, calibrations>>
gridVars == <<image, gridLayout, pageIndex, crops, doc, fileInfo>>
vars == <<mapProjects, batchJobs, batchReq, files, startReq, worker, genReq, calibrations,
          image, gridLayout, pageIndex, crops, doc, fileInfo>>

\* ------------------------------------------------------------- constants
NULL == "null"
UNDEFINED == "undefined"
JobId == "job1"
FileIds == 1..MaxFiles
StartIds == 1..MaxStart
GenIds == 1..MaxGen
\* the project created by POST /api/maps/upload (an id no batch file has)
UploadId == MaxFiles + 1

AllFailedMessage == "All files failed to process"
NotFoundMessage == "Batch job not found"

\* ---------------------------------------------------------------- storage
\* the keys an update object can hold the value undefined under
Undefinable == {"errorMessage"}

\* the columns an update statement assigns: .set(updates) leaves out the
\* keys whose value is undefined
Assigned(updates) ==
    {f \in DOMAIN updates :
        IF f \in Undefinable THEN updates[f] # UNDEFINED ELSE TRUE}

\* db.update(...).set(updates): the assigned columns are replaced
Merge(existing, updates) ==
    [f \in DOMAIN existing |-> IF f \in Assigned(updates) THEN updates[f] ELSE existing[f]]

\* the table after an update statement that found the row and succeeded
Merged(table, id, updates) ==
    [table EXCEPT ![id] = Merge(@, updates)]

\* an update that stores the updates as a new row when the row is missing
UpdateRow_Upsert(table, id, updates) ==
    IF id \in DOMAIN table
    THEN {Merged(table, id, updates), table}
    ELSE {(id :> updates) @@ table}

\* storage.updateMapProject / storage.updateBatchJob: the tables one call
\* can leave.  A missing row is left missing (undefined is returned); an
\* existing row is merged with updates, or, when the statement is rejected,
\* the error is caught, undefined is returned and the row is left as it was
UpdateRow(table, id, updates) ==
    IF id \in DOMAIN table
    THEN {Merged(table, id, updates), table}
    ELSE {table}

\* storage.getMapProject / storage.getBatchJob: the outcomes of one read,
\* TRUE = the row is returned, FALSE = undefined is returned
ReadOutcomes(table, id) ==
    IF id \in DOMAIN table THEN {TRUE, FALSE} ELSE {FALSE}

\* storage.deleteBatchJob
DeleteRow(table, id) ==
    [k \in DOMAIN table \ {id} |-> table[k]]

\* ------------------------------------------------------------ POST /api/batch
\* mapSettingsSchema.parse({}); a settings value is named by its paperSize
DefaultSettings == "a4"
\* the settings a request can carry
SettingsValues == {"a4", "a3"}

\* the row POST /api/maps/upload creates: the settings are the defaults
NewProject == [status |-> "uploaded", pdfUrl |-> NULL, settings |-> DefaultSettings]

\* the row POST /api/batch creates for a file: the settings are those of
\* the request
NewBatchProject(settings) ==
    [status |-> "uploaded", pdfUrl |-> NULL, settings |-> settings]

NewBatchJob(projectIds, settings) ==
    [ status         |-> "pending",
      settings       |-> settings,
      totalFiles     |-> Len(projectIds),
      processedFiles |-> 0,
      failedFiles    |-> 0,
      projectIds     |-> projectIds,
      completedAt    |-> NULL,
      errorMessage   |-> NULL ]

Range(s) == {s[k] : k \in 1..Len(s)}

\* the request before it has been received
NewBatchRequest ==
    [pc |-> "new", i |-> 0, projectIds |-> <<>>, settings |-> NULL, resp |-> 0]

\* POST /api/batch has answered
created == batchReq.pc = "done"

\* the request is received with its files and its settings; no file: 400
BatchReceive ==
    /\ batchReq.pc = "new"
    /\ \E n \in 0..MaxFiles : \E valid \in [1..n -> BOOLEAN] :
       \E settings \in SettingsValues :
         /\ files' = valid
         /\ batchReq' = IF n = 0
                        THEN [batchReq EXCEPT !.pc = "done", !.resp = 400]
                        ELSE [batchReq EXCEPT !.pc = "file", !.i = 1,
                                              !.settings = settings]
    /\ UNCHANGED <<mapProjects, batchJobs, startReq, worker, singleVars, gridVars>>

\* whether createMapProject can be reached and succeed for a file: only a
\* file with dimensions gets that far, and any of readFile, metadata and
\* createMapProject may throw, which skips the file
ProjectOutcomes(valid) == IF valid THEN {TRUE, FALSE} ELSE {FALSE}

\* the request after one file: the id is pushed when the project was
\* stored; a temp file that cannot be removed ends the request with 500;
\* after the last file, no project: 400, otherwise createBatchJob is next
AfterFile(q, n, stored, unlinked) ==
    LET pushed == [q EXCEPT !.projectIds = IF stored THEN Append(@, q.i) ELSE @]
    IN IF ~unlinked THEN [pushed EXCEPT !.pc = "done", !.resp = 500]
       ELSE IF q.i < n THEN [pushed EXCEPT !.i = @ + 1]
       ELSE IF Len(pushed.projectIds) = 0
            THEN [pushed EXCEPT !.pc = "done", !.resp = 400]
            ELSE [pushed EXCEPT !.pc = "createBatchJob"]

\* one iteration of `for (const file of files)`: readFile, metadata,
\* createMapProject, unlink (the project of file k has id k)
BatchFile ==
    /\ batchReq.pc = "file"
    /\ \E stored \in ProjectOutcomes(files[batchReq.i]) : \E unlinked \in BOOLEAN :
         /\ mapProjects' = IF stored
                           THEN (batchReq.i :> NewBatchProject(batchReq.settings))
                                @@ mapProjects
                           ELSE mapProjects
         /\ batchReq' = AfterFile(batchReq, Len(files), stored, unlinked)
    /\ UNCHANGED <<batchJobs, files, startReq, worker, singleVars, gridVars>>

\* createBatchJob and the answer: the job, or 500 when the insert threw
BatchCreateJob ==
    /\ batchReq.pc = "createBatchJob"
    /\ \E stored \in BOOLEAN :
         /\ batchJobs' = IF stored
                         THEN (JobId :> NewBatchJob(batchReq.projectIds,
                                                    batchReq.settings))
                              @@ batchJobs
                         ELSE batchJobs
         /\ batchReq' = [batchReq EXCEPT !.pc = "done",
                                         !.resp = IF stored THEN 200 ELSE 500]
    /\ UNCHANGED <<mapProjects, files, startReq, worker, singleVars, gridVars>>

\* ------------------------------------------------- DELETE /api/batch/:id
\* deleteBatchJob removes the row; a rejected delete is caught, the row
\* stays and the state is unchanged (a stuttering step)
DeleteBatch ==
    /\ JobId \in DOMAIN batchJobs
    /\ batchJobs' = DeleteRow(batchJobs, JobId)
    /\ UNCHANGED <<mapProjects, batchReq, files, startReq, worker, singleVars, gridVars>>

\* ------------------------------------------------ storage.deleteMapProject
\* the public storage method no route calls: it removes the row of the
\* project and leaves the jobs that list the id as they are; a rejected
\* delete is caught and the row stays
DeleteMapProject(p) ==
    /\ p \in DOMAIN mapProjects
    /\ mapProjects' = DeleteRow(mapProjects, p)
    /\ UNCHANGED <<batchVars, singleVars, gridVars>>

\* ------------------------------------------- POST /api/batch/:id/process
IdleWorker ==
    [ pc |-> "idle", projectIds |-> <<>>, totalFiles |-> 0, i |-> 0,
      processedCount |-> 0, failedCount |-> 0, handled |-> <<>>,
      settings |-> NULL ]

\* `const project = await storage.getMapProject(projectId)`: the project
\* handed to generatePDF is the row as read, with its own settings
WithProject(w, project) ==
    [w EXCEPT !.pc = "setProcessing", !.settings = project.settings]

\* a start guard that also lets a failed job be started again
StartAllowed_RetryFailed(status) == status \in {"pending", "failed"}

\* the guard of the start operation on the status it has read
StartAllowed(status) == status = "pending"

\* getBatchJob and the two checks on its result
StartRead(r) ==
    /\ startReq[r].pc = "new"
    /\ created
    /\ IF r = 1 THEN TRUE ELSE startReq[r - 1].pc # "new"
    /\ \E found \in ReadOutcomes(batchJobs, JobId) :
         startReq' = [startReq EXCEPT ![r] =
            IF ~found THEN [pc |-> "done", seen |-> "undefined", resp |-> 404]
            ELSE IF ~StartAllowed(batchJobs[JobId].status)
                 THEN [pc |-> "done", seen |-> batchJobs[JobId].status, resp |-> 400]
                 ELSE [pc |-> "update", seen |-> batchJobs[JobId].status, resp |-> 0]]
    /\ UNCHANGED <<mapProjects, batchJobs, batchReq, files, worker, singleVars, gridVars>>

\* updateBatchJob(id, {status: "running"}), then processBatchJob(id) is
\* called without being awaited and the request is answered
StartRun(r) ==
    /\ startReq[r].pc = "update"
    /\ batchJobs' \in UpdateRow(batchJobs, JobId, [status |-> "running"])
    /\ startReq' = [startReq EXCEPT ![r].pc = "done", ![r].resp = 200]
    /\ worker' = [worker EXCEPT ![r].pc = "getBatchJob"]
    /\ UNCHANGED <<mapProjects, batchReq, files, singleVars, gridVars>>

\* ------------------------------------------------------- processBatchJob
\* the head of `for (const projectId of batchJob.projectIds)`
LoopHead(w) ==
    IF w.i > Len(w.projectIds) THEN [w EXCEPT !.pc = "finalUpdate"]
    ELSE [w EXCEPT !.pc = "getMapProject"]

\* the end of one iteration: the loop moves to the next member
EndIteration(w) ==
    LoopHead([w EXCEPT !.i = @ + 1])

WGetBatchJob(r) ==
    /\ worker[r].pc = "getBatchJob"
    /\ \E found \in ReadOutcomes(batchJobs, JobId) :
         worker' = [worker EXCEPT ![r] =
            IF ~found THEN [@ EXCEPT !.pc = "catch"]
            ELSE LoopHead([@ EXCEPT !.projectIds = batchJobs[JobId].projectIds,
                                    !.totalFiles = batchJobs[JobId].totalFiles,
                                    !.i = 1])]
    /\ UNCHANGED <<mapProjects, batchJobs, batchReq, files, startReq, singleVars, gridVars>>

\* the read of a member without the `continue` of the not-found branch:
\* the body goes on with the missing project
WGetMapProject_NoContinue(r) ==
    /\ worker[r].pc = "getMapProject"
    /\ LET projectId == worker[r].projectIds[worker[r].i]
           entered == [worker[r] EXCEPT !.handled = Append(@, projectId)]
       IN \E found \in ReadOutcomes(mapProjects, projectId) :
            worker' = [worker EXCEPT ![r] =
               IF ~found THEN [entered EXCEPT !.failedCount = @ + 1, !.pc = "setProcessing"]
               ELSE WithProject(entered, mapProjects[projectId])]
    /\ UNCHANGED <<mapProjects, batchJobs, batchReq, files, startReq, singleVars, gridVars>>

\* getMapProject(projectId); `if (!project) { failedCount++; continue; }`
\* (handled records the ids the loop body has been entered with)
WGetMapProject(r) ==
    /\ worker[r].pc = "getMapProject"
    /\ LET projectId == worker[r].projectIds[worker[r].i]
           entered == [worker[r] EXCEPT !.handled = Append(@, projectId)]
       IN \E found \in ReadOutcomes(mapProjects, projectId) :
            worker' = [worker EXCEPT ![r] =
               IF ~found THEN EndIteration([entered EXCEPT !.failedCount = @ + 1])
               ELSE WithProject(entered, mapProjects[projectId])]
    /\ UNCHANGED <<mapProjects, batchJobs, batchReq, files, startReq, singleVars, gridVars>>

\* updateMapProject(projectId, {status: "processing"})
WSetProcessing(r) ==
    /\ worker[r].pc = "setProcessing"
    /\ mapProjects' \in UpdateRow(mapProjects, worker[r].projectIds[worker[r].i],
                                [status |-> "processing"])
    /\ worker' = [worker EXCEPT ![r].pc = "generatePDF"]
    /\ UNCHANGED <<batchJobs, batchReq, files, startReq, singleVars, gridVars>>

\* generatePDF(project) resolves with a path or rejects; on rejection the
\* catch block starts with failedCount++
WGeneratePDF(r) ==
    /\ worker[r].pc = "generatePDF"
    /\ \E ok \in BOOLEAN :
         worker' = [worker EXCEPT ![r] =
            IF ok THEN [@ EXCEPT !.pc = "setCompleted"]
            ELSE [@ EXCEPT !.pc = "setUploaded", !.failedCount = @ + 1]]
    /\ UNCHANGED <<mapProjects, batchJobs, batchReq, files, startReq, singleVars, gridVars>>

\* updateMapProject(projectId, {pdfUrl, status: "completed"}); processedCount++
WSetCompleted(r) ==
    /\ worker[r].pc = "setCompleted"
    /\ mapProjects' \in UpdateRow(mapProjects, worker[r].projectIds[worker[r].i],
                                [pdfUrl |-> "pdf", status |-> "completed"])
    /\ worker' = [worker EXCEPT ![r].pc = "updateProgress",
                                ![r].processedCount = @ + 1]
    /\ UNCHANGED <<batchJobs, batchReq, files, startReq, singleVars, gridVars>>

\* catch: updateMapProject(projectId, {status: "uploaded"})
WSetUploaded(r) ==
    /\ worker[r].pc = "setUploaded"
    /\ mapProjects' \in UpdateRow(mapProjects, worker[r].projectIds[worker[r].i],
                                [status |-> "uploaded"])
    /\ worker' = [worker EXCEPT ![r].pc = "updateProgressFailed"]
    /\ UNCHANGED <<batchJobs, batchReq, files, startReq, singleVars, gridVars>>

\* the progress written after a member
Progress(w) ==
    [processedFiles |-> w.processedCount, failedFiles |-> w.failedCount]

\* try: updateBatchJob(batchJobId, {processedFiles, failedFiles})
WUpdateProgress(r) ==
    /\ worker[r].pc = "updateProgress"
    /\ batchJobs' \in UpdateRow(batchJobs, JobId, Progress(worker[r]))
    /\ worker' = [worker EXCEPT ![r] = EndIteration(@)]
    /\ UNCHANGED <<mapProjects, batchReq, files, startReq, singleVars, gridVars>>

\* a catch block that leaves the loop after the failed member
WUpdateProgressFailed_Break(r) ==
    /\ worker[r].pc = "updateProgressFailed"
    /\ batchJobs' \in UpdateRow(batchJobs, JobId, Progress(worker[r]))
    /\ worker' = [worker EXCEPT ![r].pc = "finalUpdate"]
    /\ UNCHANGED <<mapProjects, batchReq, files, startReq, singleVars, gridVars>>

\* catch: updateBatchJob(batchJobId, {processedFiles, failedFiles})
WUpdateProgressFailed(r) ==
    /\ worker[r].pc = "updateProgressFailed"
    /\ batchJobs' \in UpdateRow(batchJobs, JobId, Progress(worker[r]))
    /\ worker' = [worker EXCEPT ![r] = EndIteration(@)]
    /\ UNCHANGED <<mapProjects, batchReq, files, startReq, singleVars, gridVars>>

\* the status written when the loop has ended
FinalStatus(processedCount) ==
    IF processedCount > 0 THEN "completed" ELSE "failed"

\* the update written when the loop has ended
FinalUpdate(w) ==
    [ status         |-> FinalStatus(w.processedCount),
      processedFiles |-> w.processedCount,
      failedFiles    |-> w.failedCount,
      completedAt    |-> "date",
      errorMessage   |-> IF w.failedCount = w.totalFiles
                         THEN AllFailedMessage ELSE UNDEFINED ]

WFinalUpdate(r) ==
    /\ worker[r].pc = "finalUpdate"
    /\ batchJobs' \in UpdateRow(batchJobs, JobId, FinalUpdate(worker[r]))
    /\ worker' = [worker EXCEPT ![r].pc = "resolved"]
    /\ UNCHANGED <<mapProjects, batchReq, files, startReq, singleVars, gridVars>>

\* processBatchJob(id).catch(...): the update of the batch-level handler
CatchUpdate ==
    [status |-> "failed", errorMessage |-> NotFoundMessage, completedAt |-> "date"]

WCatch(r) ==
    /\ worker[r].pc = "catch"
    /\ batchJobs' \in UpdateRow(batchJobs, JobId, CatchUpdate)
    /\ worker' = [worker EXCEPT ![r].pc = "rejected"]
    /\ UNCHANGED <<mapProjects, batchReq, files, startReq, singleVars, gridVars>>

\* ------------------------------------------------- POST /api/maps/upload
Upload ==
    /\ UploadId \notin DOMAIN mapProjects
    /\ mapProjects' = (UploadId :> NewProject) @@ mapProjects
    /\ UNCHANGED <<batchVars, singleVars, gridVars>>

\* ---------------------------------------- PATCH /api/maps/:id/calibration
Calibrate(p) ==
    /\ calibrations < MaxCalibrate
    /\ p \in DOMAIN mapProjects
    /\ mapProjects' \in UpdateRow(mapProjects, p, [status |-> "calibrated"])
    /\ calibrations' = calibrations + 1
    /\ UNCHANGED <<batchVars, genReq, gridVars>>

\* ------------------------------------------- PATCH /api/maps/:id/settings
UpdateSettings(p, settings) ==
    /\ p \in DOMAIN mapProjects
    /\ mapProjects[p].settings # settings
    /\ mapProjects' \in UpdateRow(mapProjects, p, [settings |-> settings])
    /\ UNCHANGED <<batchVars, singleVars, gridVars>>

\* ---------------------------------------- POST /api/maps/:id/generate-pdf
NewRequest == [pc |-> "new", id |-> UploadId, seen |-> "none", resp |-> 0]

\* a generation guard that also accepts a completed project
GenerateAllowed_Regenerate(status) == status \in {"calibrated", "completed"}

\* the guard of single-item generation on the status it has read
GenerateAllowed(status) == status = "calibrated"

\* getMapProject and the two checks on its result
GenRead(g, p) ==
    /\ genReq[g].pc = "new"
    /\ IF g = 1 THEN TRUE ELSE genReq[g - 1].pc # "new"
    /\ \E found \in ReadOutcomes(mapProjects, p) :
         genReq' = [genReq EXCEPT ![g] =
            IF ~found
            THEN [pc |-> "done", id |-> p, seen |-> "undefined", resp |-> 404]
            ELSE IF ~GenerateAllowed(mapProjects[p].status)
                 THEN [pc |-> "done", id |-> p, seen |-> mapProjects[p].status, resp |-> 400]
                 ELSE [pc |-> "setProcessing", id |-> p, seen |-> mapProjects[p].status, resp |-> 0]]
    /\ UNCHANGED <<mapProjects, batchVars, calibrations, gridVars>>

\* updateMapProject(id, {status: "processing"})
GenSetProcessing(g) ==
    /\ genReq[g].pc = "setProcessing"
    /\ mapProjects' \in UpdateRow(mapProjects, genReq[g].id, [status |-> "processing"])
    /\ genReq' = [genReq EXCEPT ![g].pc = "generatePDF"]
    /\ UNCHANGED <<batchVars, calibrations, gridVars>>

\* generatePDF(project) resolves with a path or rejects
GenGeneratePDF(g) ==
    /\ genReq[g].pc = "generatePDF"
    /\ \E ok \in BOOLEAN :
         genReq' = [genReq EXCEPT ![g].pc = IF ok THEN "setCompleted" ELSE "catch"]
    /\ UNCHANGED <<mapProjects, batchVars, calibrations, gridVars>>

\* updateMapProject(id, {pdfUrl, status: "completed"}); res.json(completed)
GenSetCompleted(g) ==
    /\ genReq[g].pc = "setCompleted"
    /\ mapProjects' \in UpdateRow(mapProjects, genReq[g].id,
                                [pdfUrl |-> "pdf", status |-> "completed"])
    /\ genReq' = [genReq EXCEPT ![g].pc = "done", ![g].resp = 200]
    /\ UNCHANGED <<batchVars, calibrations, gridVars>>

\* catch: updateMapProject(id, {status: "calibrated"}); res.status(500)
GenCatch(g) ==
    /\ genReq[g].pc = "catch"
    /\ mapProjects' \in UpdateRow(mapProjects, genReq[g].id, [status |-> "calibrated"])
    /\ genReq' = [genReq EXCEPT ![g].pc = "done", ![g].resp = 500]
    /\ UNCHANGED <<batchVars, calibrations, gridVars>>

\* ------------------------------------------------------- paper sizes
\* the paper names of mapSettingsSchema and a name that is none of them
PaperNames == {"a4", "a3", "a2", "a1", "a0", "letter", "legal", "tabloid"}
\* a name that is in neither table and not a property of every object
UnknownPaper == "unknown"
\* a name every JavaScript object inherits a property for
InheritedName == "constructor"
\* Object.prototype.constructor: truthy, without width and height
InheritedProperty == [inherited |-> TRUE]
\* the result of arithmetic on an undefined width or height
NaN == "NaN"

\* generatePDF: paperSizes
paperSizes ==
    [ a4      |-> [width |-> 595,  height |-> 842],
      a3      |-> [width |-> 842,  height |-> 1191],
      a2      |-> [width |-> 1191, height |-> 1684],
      a1      |-> [width |-> 1684, height |-> 2384],
      a0      |-> [width |-> 2384, height |-> 3370],
      letter  |-> [width |-> 612,  height |-> 792],
      legal   |-> [width |-> 612,  height |-> 1008],
      tabloid |-> [width |-> 792,  height |-> 1224] ]

\* pdf-generator: PAPER_SIZES
PAPER_SIZES ==
    [ a4      |-> [width |-> 595,  height |-> 842],
      a3      |-> [width |-> 842,  height |-> 1191],
      a2      |-> [width |-> 1191, height |-> 1684],
      letter  |-> [width |-> 612,  height |-> 792],
      legal   |-> [width |-> 612,  height |-> 1008],
      tabloid |-> [width |-> 792,  height |-> 1224] ]

\* table[name] || table.a4: an own entry, else the property the table
\* object inherits under that name, else the a4 entry
Lookup(table, name) ==
    IF name \in DOMAIN table THEN table[name]
    ELSE IF name = InheritedName THEN InheritedProperty
    ELSE table["a4"]

\* the page size has a width and a height
HasSize(paper) == "width" \in DOMAIN paper

\* --------------------------------------------------- natural numbers
\* A mantissa of a double and the products and quotients taken of it have
\* more bits than an integer of the checker, so a natural number is held as
\* the sequence of its digits in base 2^LimbBits, lowest digit first and
\* no zero as the highest digit (0 is the empty sequence).
LimbBits == 15
Base == 2 ^ LimbBits
\* a double has a mantissa of 53 bits
MantissaBits == 53

Limb(a, i) == IF i <= Len(a) THEN a[i] ELSE 0

RECURSIVE Trim(_)
Trim(a) ==
    IF a # <<>> /\ a[Len(a)] = 0 THEN Trim(SubSeq(a, 1, Len(a) - 1)) ELSE a

RECURSIVE BigOfInt(_)
BigOfInt(n) ==
    IF n = 0 THEN <<>> ELSE <<n % Base>> \o BigOfInt(n \div Base)

RECURSIVE IntOfBig(_)
IntOfBig(a) ==
    IF a = <<>> THEN 0 ELSE a[1] + Base * IntOfBig(Tail(a))

RECURSIVE CmpFrom(_, _, _)
CmpFrom(a, b, i) ==
    IF i = 0 THEN 0
    ELSE IF a[i] < b[i] THEN -1
    ELSE IF a[i] > b[i] THEN 1
    ELSE CmpFrom(a, b, i - 1)

\* -1, 0 or 1 as a < b, a = b or a > b
BigCmp(a, b) ==
    IF Len(a) < Len(b) THEN -1
    ELSE IF Len(a) > Len(b) THEN 1
    ELSE CmpFrom(a, b, Len(a))

RECURSIVE AddCarry(_, _, _, _)
AddCarry(a, b, i, c) ==
    IF i > Len(a) /\ i > Len(b) THEN BigOfInt(c)
    ELSE LET sum == Limb(a, i) + Limb(b, i) + c
         IN <<sum % Base>> \o AddCarry(a, b, i + 1, sum \div Base)

BigAdd(a, b) == AddCarry(a, b, 1, 0)

RECURSIVE SubBorrow(_, _, _, _)
SubBorrow(a, b, i, c) ==
    IF i > Len(a) THEN <<>>
    ELSE LET d == a[i] - Limb(b, i) - c
         IN IF d < 0
            THEN <<d + Base>> \o SubBorrow(a, b, i + 1, 1)
            ELSE <<d>> \o SubBorrow(a, b, i + 1, 0)

\* a - b for a >= b
BigSub(a, b) == Trim(SubBorrow(a, b, 1, 0))

RECURSIVE MulCarry(_, _, _, _)
MulCarry(a, k, i, c) ==
    IF i > Len(a) THEN BigOfInt(c)
    ELSE LET p == a[i] * k + c
         IN <<p % Base>> \o MulCarry(a, k, i + 1, p \div Base)

\* a * k + c for 0 <= k < Base and 0 <= c < Base
BigMulSmall(a, k, c) == Trim(MulCarry(a, k, 1, c))

\* a * Base^n
ShiftLimbs(a, n) ==
    IF a = <<>> THEN <<>> ELSE [i \in 1..n |-> 0] \o a

RECURSIVE BigMul(_, _)
BigMul(a, b) ==
    IF b = <<>> THEN <<>>
    ELSE BigAdd(BigMulSmall(a, b[1], 0), ShiftLimbs(BigMul(a, Tail(b)), 1))

\* a * 2^n
BigShl(a, n) ==
    ShiftLimbs(BigMulSmall(a, 2 ^ (n % LimbBits), 0), n \div LimbBits)

\* the quotient and remainder of the lower digits (rest) with the next
\* higher digit g of the quotient
Push(rest, g) == [q |-> Append(rest.q, g), r |-> rest.r]

\* division by one digit k, from the highest digit of a
RECURSIVE ShortDiv(_, _, _, _)
ShortDiv(a, k, i, r) ==
    IF i = 0 THEN [q |-> <<>>, r |-> BigOfInt(r)]
    ELSE LET cur == r * Base + a[i]
         IN IF cur < k
            THEN Push(ShortDiv(a, k, i - 1, cur), 0)
            ELSE Push(ShortDiv(a, k, i - 1, cur % k), cur \div k)

\* the greatest digit g in lo..hi with g * d <= cur
RECURSIVE Digit(_, _, _, _)
Digit(cur, d, lo, hi) ==
    IF lo = hi THEN lo
    ELSE LET mid == (lo + hi + 1) \div 2
         IN IF BigCmp(BigMulSmall(d, mid, 0), cur) <= 0
            THEN Digit(cur, d, mid, hi)
            ELSE Digit(cur, d, lo, mid - 1)

\* long division, digit by digit from the highest digit of a
RECURSIVE LongDiv(_, _, _, _)
\* digit i of the quotient is g: cur - g * d is carried to the digits below
LongDivStep(a, d, i, cur, g) ==
    Push(LongDiv(a, d, i - 1, BigSub(cur, BigMulSmall(d, g, 0))), g)

\* cur is the remainder so far with digit i of a brought down
LongDivDigit(a, d, i, cur) ==
    IF BigCmp(cur, d) < 0
    THEN Push(LongDiv(a, d, i - 1, cur), 0)
    ELSE LET g == Digit(cur, d, 1, Base - 1)
         IN LongDivStep(a, d, i, cur, g)

LongDiv(a, d, i, r) ==
    IF i = 0 THEN [q |-> <<>>, r |-> r]
    ELSE LET cur == Trim(<<a[i]>> \o r)
         IN LongDivDigit(a, d, i, cur)

RECURSIVE IntBits(_)
IntBits(n) == IF n = 0 THEN 0 ELSE 1 + IntBits(n \div 2)

\* the number of bits of a
BitLen(a) ==
    IF a = <<>> THEN 0 ELSE (Len(a) - 1) * LimbBits + IntBits(a[Len(a)])

\* quotient q and remainder r of a by d > 0
TrimQuotient(qr) == [q |-> Trim(qr.q), r |-> qr.r]

BigDivMod(a, d) ==
    LET qr == IF Len(d) = 1
              THEN ShortDiv(a, d[1], Len(a), 0)
              ELSE LongDiv(a, d, Len(a), <<>>)
    IN TrimQuotient(qr)

\* floor(a / 2^n)
BigShr(a, n) ==
    IF n \div LimbBits >= Len(a) THEN <<>>
    ELSE LET high == SubSeq(a, n \div LimbBits + 1, Len(a))
         IN Trim(ShortDiv(high, 2 ^ (n % LimbBits), Len(high), 0).q)

RECURSIVE TrailingZeros(_)
TrailingZeros(n) == IF n % 2 = 1 THEN 0 ELSE 1 + TrailingZeros(n \div 2)

\* ------------------------------------------------------------- Number
\* A JavaScript number is a double: sgn * m * 2^e with sgn in {-1, 0, 1}
\* and m a natural number of at most 53 bits, held here with m odd so that
\* a number has one representation (0 has sgn 0).  Every arithmetic
\* operation gives the double nearest to the exact result, ties to the
\* even mantissa.  (Infinities, NaN from a division by 0 and subnormal
\* numbers are not reached by a grid that has a tile.)
Zero == [sgn |-> 0, m |-> <<>>, e |-> 0]
Min(a, b) == IF a <= b THEN a ELSE b

RECURSIVE Normal(_, _, _)
Normal(sgn, m, e) ==
    IF m = <<>> \/ sgn = 0 THEN Zero
    ELSE IF m[1] = 0 THEN Normal(sgn, Tail(m), e + LimbBits)
    ELSE IF m[1] % 2 = 1 THEN [sgn |-> sgn, m |-> m, e |-> e]
    ELSE [sgn |-> sgn, m |-> BigShr(m, TrailingZeros(m[1])),
          e |-> e + TrailingZeros(m[1])]

\* whether the mantissa keep is rounded up: c is -1, 0 or 1 as the bits cut
\* off are below, at or above half a unit of keep; a tie goes to the even one
RoundsUp(keep, c, sticky) ==
    IF c > 0 THEN TRUE
    ELSE IF c < 0 THEN FALSE
    ELSE IF sticky THEN TRUE
    ELSE keep[1] % 2 = 1

\* q without its lowest t bits (keep), rounded to nearest
Nearest(q, t, keep, sticky) ==
    LET c == BigCmp(BigSub(q, BigShl(keep, t)), BigShl(<<1>>, t - 1))
    IN IF RoundsUp(keep, c, sticky) THEN BigAdd(keep, <<1>>) ELSE keep

\* the double nearest to sgn * (q + f) * 2^e, where 0 <= f < 1 and sticky
\* says whether f > 0: the bits of q beyond the 53rd are rounded away
RoundBits(sgn, q, sticky, e) ==
    LET t == BitLen(q) - MantissaBits
    IN IF t <= 0 THEN Normal(sgn, q, e)
       ELSE LET keep == BigShr(q, t)
            IN Normal(sgn, Nearest(q, t, keep, sticky), e + t)

\* the double nearest to sgn * (qr.q + qr.r / d) * 2^e
RoundQuotient(sgn, qr, e) == RoundBits(sgn, qr.q, qr.r # <<>>, e)

\* the double nearest to sgn * (a / d) * 2^e for natural numbers a and d > 0:
\* the quotient is taken to two bits more than the mantissa holds
RoundToDouble(sgn, a, d, e) ==
    IF a = <<>> \/ sgn = 0 THEN Zero
    ELSE IF d = <<1>> THEN RoundBits(sgn, a, FALSE, e)
    ELSE LET j  == IF MantissaBits + 2 + BitLen(d) > BitLen(a)
                   THEN MantissaBits + 2 + BitLen(d) - BitLen(a) ELSE 0
             qr == BigDivMod(BigShl(a, j), d)
         IN RoundQuotient(sgn, qr, e - j)

\* the number an integer literal or an integer-valued field stands for
Num(n) ==
    IF n = 0 THEN Zero
    ELSE IF n > 0 THEN Normal(1, BigOfInt(n), 0)
    ELSE Normal(-1, BigOfInt(-n), 0)

\* a * b
Mul(a, b) == RoundToDouble(a.sgn * b.sgn, BigMul(a.m, b.m), <<1>>, a.e + b.e)

\* a / b for b # 0
Div(a, b) == RoundToDouble(a.sgn * b.sgn, a.m, b.m, a.e - b.e)

\* sa * x * 2^e - sb * y * 2^e for sa and sb in {-1, 1}
SignedDiff(sa, x, sb, y, e) ==
    IF sa # sb THEN [sgn |-> sa, m |-> BigAdd(x, y), e |-> e]
    ELSE IF BigCmp(x, y) = 0 THEN Zero
    ELSE IF BigCmp(x, y) > 0 THEN [sgn |-> sa, m |-> BigSub(x, y), e |-> e]
    ELSE [sgn |-> -sa, m |-> BigSub(y, x), e |-> e]

\* a - b before it is rounded: sgn * m * 2^e with m of any length
ExactDiff(a, b) ==
    IF b.sgn = 0 THEN a
    ELSE IF a.sgn = 0 THEN [sgn |-> -b.sgn, m |-> b.m, e |-> b.e]
    ELSE LET e0 == Min(a.e, b.e)
             x  == BigShl(a.m, a.e - e0)
             y  == BigShl(b.m, b.e - e0)
         IN SignedDiff(a.sgn, x, b.sgn, y, e0)

\* the double nearest to d.sgn * d.m * 2^d.e
Rounded(d) == RoundBits(d.sgn, d.m, FALSE, d.e)

\* a - b
Sub(a, b) ==
    LET d == ExactDiff(a, b) IN Rounded(d)

\* Math.min(a, b)
MathMin(a, b) == IF ExactDiff(a, b).sgn <= 0 THEN a ELSE b

\* Math.floor(a), as an integer
MathFloor(a) ==
    IF a.sgn = 0 THEN 0
    ELSE IF a.e >= 0 THEN a.sgn * IntOfBig(BigShl(a.m, a.e))
    ELSE IF a.sgn > 0 THEN IntOfBig(BigShr(a.m, -a.e))
    ELSE -(IntOfBig(BigShr(a.m, -a.e)) + 1)

\* Math.ceil(a), as an integer
MathCeil(a) == -MathFloor([a EXCEPT !.sgn = -a.sgn])

\* ---------------------------------------- pdf-generator: calculateGridLayout
calculateGridLayout(imageWidth, imageHeight, scale, paperSize) ==
    LET paper == Lookup(PAPER_SIZES, paperSize)
        scaledWidth == Mul(Num(imageWidth), scale)
        scaledHeight == Mul(Num(imageHeight), scale)
        pagesX == MathCeil(Div(scaledWidth, Num(paper.width)))
        pagesY == MathCeil(Div(scaledHeight, Num(paper.height)))
    IN IF HasSize(paper)
       THEN [ side       |-> "client",
              pagesX     |-> pagesX,
              pagesY     |-> pagesY,
              totalPages |-> pagesX * pagesY,
              pageSize   |-> paper ]
       ELSE [ side       |-> "client",
              pagesX     |-> NaN,
              pagesY     |-> NaN,
              totalPages |-> NaN,
              pageSize   |-> paper ]

\* generatePDF: paperSize, pagesX, pagesY; the two loops run over
\* pagesX * pagesY tiles
ServerGrid(imageWidth, imageHeight, scale, paperSize) ==
    LET paper == Lookup(paperSizes, paperSize)
        scaledWidth == Mul(Num(imageWidth), scale)
        scaledHeight == Mul(Num(imageHeight), scale)
        pagesX == MathCeil(Div(scaledWidth, Num(paper.width)))
        pagesY == MathCeil(Div(scaledHeight, Num(paper.height)))
    IN IF HasSize(paper)
       THEN [ side       |-> "server",
              pagesX     |-> pagesX,
              pagesY     |-> pagesY,
              totalPages |-> pagesX * pagesY,
              pageSize   |-> paper ]
       ELSE [ side       |-> "server",
              pagesX     |-> NaN,
              pagesY     |-> NaN,
              totalPages |-> NaN,
              pageSize   |-> paper ]

\* pdf-generator: getPageCoordinates
getPageCoordinates(index, layout) ==
    LET pageX == index % layout.pagesX
        pageY == index \div layout.pagesX
    IN [ x |-> pageX * layout.pageSize.width,
         y |-> pageY * layout.pageSize.height,
         pageX |-> pageX, pageY |-> pageY ]

\* a crop whose width and height are not clamped to the image
generateCropArea_NoClamp(index, layout, originalWidth, originalHeight, scale) ==
    LET c == getPageCoordinates(index, layout)
    IN [ left   |-> MathFloor(Div(Num(c.x), scale)),
         top    |-> MathFloor(Div(Num(c.y), scale)),
         width  |-> MathFloor(Div(Num(layout.pageSize.width), scale)),
         height |-> MathFloor(Div(Num(layout.pageSize.height), scale)) ]

\* pdf-generator: generateCropArea
generateCropArea(index, layout, originalWidth, originalHeight, scale) ==
    LET c == getPageCoordinates(index, layout)
        cropX == Div(Num(c.x), scale)
        cropY == Div(Num(c.y), scale)
        cropWidth == MathMin(Div(Num(layout.pageSize.width), scale),
                             Sub(Num(originalWidth), cropX))
        cropHeight == MathMin(Div(Num(layout.pageSize.height), scale),
                              Sub(Num(originalHeight), cropY))
    IN [ left   |-> MathFloor(cropX),
         top    |-> MathFloor(cropY),
         width  |-> MathFloor(cropWidth),
         height |-> MathFloor(cropHeight) ]

\* generatePDF: the rectangle passed to sharp's extract for tile (x, y)
ServerCrop(x, y, layout, width, height, scale) ==
    LET cropX == Div(Num(x * layout.pageSize.width), scale)
        cropY == Div(Num(y * layout.pageSize.height), scale)
        cropWidth == MathMin(Div(Num(layout.pageSize.width), scale),
                             Sub(Num(width), cropX))
        cropHeight == MathMin(Div(Num(layout.pageSize.height), scale),
                              Sub(Num(height), cropY))
    IN [ left   |-> MathFloor(cropX),
         top    |-> MathFloor(cropY),
         width  |-> MathFloor(cropWidth),
         height |-> MathFloor(cropHeight) ]

\* ----------------------------------------------------------- grid inputs
ImageWidths ==
    {c * 595 + d : c \in 0..MaxCols, d \in {-1, 0, 1}} \cup {1600}
ImageHeights ==
    {r * 842 + d : r \in 0..MaxRows, d \in {-1, 0, 1}} \cup {1200}
\* the scale a calibration request stores for the number num / den
ScaleOf(num, den) == Div(Num(num), Num(den))
\* scales a double holds exactly: num / 2^e
Scales ==
    {ScaleOf(n, 2 ^ e) : n \in -1..MaxScaleNum, e \in 0..MaxScaleExp}
\* scales a double only approximates: 0.1, 9/7 and 7/3
RoundedScales ==
    {ScaleOf(1, 10), ScaleOf(9, 7), ScaleOf(7, 3)}
\* images whose scaled width is a whole number of pages before it is
\* rounded: 5950 * 0.1 = 595 (a4), 616 * 9/7 = 792 (tabloid),
\* 3315 * 7/3 = 7735 = 13 * 595 (a4)
RoundedWidths == {5950, 616, 3315}
Images ==
    [ imageWidth : ImageWidths, imageHeight : ImageHeights, scale : Scales,
      paperSize : PaperNames \cup {UnknownPaper, InheritedName},
      generateBacksideNumbers : BOOLEAN ]
    \cup
    [ imageWidth : RoundedWidths, imageHeight : {842}, scale : RoundedScales,
      paperSize : {"a4", "tabloid"}, generateBacksideNumbers : {FALSE} ]

NoImage == [imageWidth |-> 0, imageHeight |-> 0,
            scale |-> Zero, paperSize |-> "none",
            generateBacksideNumbers |-> FALSE]
NoLayout == [side |-> "none"]
NoDoc == [state |-> "none", pages |-> <<>>]
NoFileInfo == [shown |-> FALSE, pageCount |-> 0]

\* W > 0, H > 0 and s > 0
ValidImage == image.imageWidth > 0 /\ image.imageHeight > 0 /\ image.scale.sgn > 0

\* the client computes the grid of the image
ClientLayout ==
    /\ gridLayout = NoLayout
    /\ gridLayout' = calculateGridLayout(image.imageWidth, image.imageHeight,
                                          image.scale, image.paperSize)
    /\ UNCHANGED <<mapProjects, batchVars, singleVars, image, pageIndex, crops,
                   doc, fileInfo>>

\* generatePDF opens the document, which starts with one empty page, and
\* computes the grid of the image
ServerLayout ==
    /\ gridLayout = NoLayout
    /\ gridLayout' = ServerGrid(image.imageWidth, image.imageHeight,
                                image.scale, image.paperSize)
    /\ doc' = [state |-> "open", pages |-> <<[kind |-> "blank"]>>]
    /\ UNCHANGED <<mapProjects, batchVars, singleVars, image, pageIndex, crops,
                   fileInfo>>

\* the client crops the next tile of the grid
ClientCrop ==
    /\ gridLayout.side = "client"
    /\ HasSize(gridLayout.pageSize)
    /\ ValidImage
    /\ pageIndex < gridLayout.totalPages
    /\ crops' = Append(crops, generateCropArea(pageIndex, gridLayout,
                          image.imageWidth, image.imageHeight, image.scale))
    /\ pageIndex' = pageIndex + 1
    /\ UNCHANGED <<mapProjects, batchVars, singleVars, image, gridLayout,
                   doc, fileInfo>>

\* generatePDF: the number of tile (x, y), as written on its backside page
\* and in its cell of the assembly guide
PageNumber(x, y, pagesX) == y * pagesX + x + 1

\* sharp's extract rejects a rectangle that is empty or not inside the image
ExtractFails(c, width, height) ==
    \/ c.left < 0
    \/ c.top < 0
    \/ c.width < 1
    \/ c.height < 1
    \/ c.left + c.width > width
    \/ c.top + c.height > height

\* the loops "for y < pagesY, for x < pagesX" have a tile left to do
TileLeft ==
    /\ HasSize(gridLayout.pageSize)
    /\ gridLayout.pagesX > 0
    /\ gridLayout.pagesY > 0
    /\ pageIndex < gridLayout.pagesX * gridLayout.pagesY

\* the pages of the document after the map page of tile (x, y): the first
\* tile is drawn on the document's first page, every other tile on a new
\* page; a backside page follows unless the tile is the last one
WithMapPage(pages, x, y, layout, backside) ==
    LET map == [kind |-> "map", x |-> x, y |-> y]
        drawn == IF x > 0 \/ y > 0
                 THEN Append(pages, map)
                 ELSE [pages EXCEPT ![Len(pages)] = map]
    IN IF backside /\ (x < layout.pagesX - 1 \/ y < layout.pagesY - 1)
       THEN Append(drawn, [kind |-> "backside",
                           number |-> PageNumber(x, y, layout.pagesX)])
       ELSE drawn

\* generatePDF does the next tile: y is the outer loop, x the inner loop.
\* (A grid has a tile only if W * s > 0 and H * s > 0, so s is not 0 here.)
ServerCropNext ==
    /\ gridLayout.side = "server"
    /\ doc.state = "open"
    /\ TileLeft
    /\ pageIndex' = pageIndex + 1
    /\ LET x == pageIndex % gridLayout.pagesX
           y == pageIndex \div gridLayout.pagesX
           crop == ServerCrop(x, y, gridLayout, image.imageWidth,
                              image.imageHeight, image.scale)
       IN /\ crops' = Append(crops, crop)
          /\ doc' = IF ExtractFails(crop, image.imageWidth, image.imageHeight)
                    THEN [state |-> "failed", pages |-> <<>>]
                    ELSE [doc EXCEPT !.pages =
                             WithMapPage(doc.pages, x, y, gridLayout,
                                         image.generateBacksideNumbers)]
    /\ UNCHANGED <<mapProjects, batchVars, singleVars, image, gridLayout, fileInfo>>

\* generatePDF: the cells of the assembly guide, in the order they are drawn
GuideCells(layout) ==
    IF HasSize(layout.pageSize) /\ layout.pagesX > 0 /\ layout.pagesY > 0
    THEN [i \in 1..(layout.pagesX * layout.pagesY) |->
            LET x == (i - 1) % layout.pagesX
                y == (i - 1) \div layout.pagesX
            IN [x |-> x, y |-> y, label |-> PageNumber(x, y, layout.pagesX)]]
    ELSE <<>>

\* generatePDF: after the tile loops, the assembly guide on a new page, and
\* the document is ended
ServerGuide ==
    /\ gridLayout.side = "server"
    /\ doc.state = "open"
    /\ ~TileLeft
    /\ doc' = [state |-> "done",
               pages |-> Append(doc.pages,
                                [kind |-> "guide",
                                 cells |-> GuideCells(gridLayout)])]
    /\ UNCHANGED <<mapProjects, batchVars, singleVars, image, gridLayout,
                   pageIndex, crops, fileInfo>>

\* success-state: getFileInfo
getFileInfo(project) ==
    LET layout == calculateGridLayout(project.imageWidth, project.imageHeight,
                                      project.scale, project.paperSize)
        withBackside == IF project.generateBacksideNumbers
                        THEN layout.totalPages + layout.totalPages
                        ELSE layout.totalPages
    IN [shown |-> TRUE,
        pageCount |-> IF HasSize(layout.pageSize) THEN withBackside + 1 ELSE NaN]

\* the success screen of the project is rendered
ShowSuccess ==
    /\ ~fileInfo.shown
    /\ image # NoImage
    /\ fileInfo' = getFileInfo(image)
    /\ UNCHANGED <<mapProjects, batchVars, singleVars, image, gridLayout,
                   pageIndex, crops, doc>>

\* ---------------------------------------------------------- specification
Init ==
    /\ mapProjects = <<>>
    /\ batchJobs = <<>>
    /\ batchReq = NewBatchRequest
    /\ files = <<>>
    /\ startReq = [r \in StartIds |-> [pc |-> "new", seen |-> "none", resp |-> 0]]
    /\ worker = [r \in StartIds |-> IdleWorker]
    /\ genReq = [g \in GenIds |-> NewRequest]
    /\ calibrations = 0
    /\ image = NoImage
    /\ gridLayout = NoLayout
    /\ pageIndex = 0
    /\ crops = <<>>
    /\ doc = NoDoc
    /\ fileInfo = NoFileInfo

Next ==
    \/ BatchReceive
    \/ BatchFile
    \/ BatchCreateJob
    \/ DeleteBatch
    \/ \E r \in StartIds : StartRead(r)
    \/ \E r \in StartIds : StartRun(r)
    \/ \E r \in StartIds : WGetBatchJob(r)
    \/ \E r \in StartIds : WGetMapProject(r)
    \/ \E r \in StartIds : WSetProcessing(r)
    \/ \E r \in StartIds : WGeneratePDF(r)
    \/ \E r \in StartIds : WSetCompleted(r)
    \/ \E r \in StartIds : WSetUploaded(r)
    \/ \E r \in StartIds : WUpdateProgress(r)
    \/ \E r \in StartIds : WUpdateProgressFailed(r)
    \/ \E r \in StartIds : WFinalUpdate(r)
    \/ \E r \in StartIds : WCatch(r)

SingleNext ==
    \/ Upload
    \/ \E p \in DOMAIN mapProjects : Calibrate(p)
    \/ \E g \in GenIds : \E p \in DOMAIN mapProjects : GenRead(g, p)
    \/ \E g \in GenIds : GenSetProcessing(g)
    \/ \E g \in GenIds : GenGeneratePDF(g)
    \/ \E g \in GenIds : GenSetCompleted(g)
    \/ \E g \in GenIds : GenCatch(g)

\* the batch orchestrator: creation, start requests, workers, deletion
Spec == Init /\ [][Next]_vars

\* the batch orchestrator next to a caller of storage.deleteMapProject
\* (there is none in the program: no route and no function calls it)
StorageNext ==
    \/ Next
    \/ \E p \in DOMAIN mapProjects : DeleteMapProject(p)

SpecStorage == Init /\ [][StorageNext]_vars

\* the single-item processor: upload, calibration, generation requests
SpecSingle == Init /\ [][SingleNext]_vars

\* the single-item processor next to a caller of storage.deleteMapProject
SingleStorageNext ==
    \/ SingleNext
    \/ \E p \in DOMAIN mapProjects : DeleteMapProject(p)

SpecSingleStorage == Init /\ [][SingleStorageNext]_vars

\* one batch with one start request, next to settings requests on its members
MixedNext ==
    \/ BatchReceive
    \/ BatchFile
    \/ BatchCreateJob
    \/ StartRead(1)
    \/ StartRun(1)
    \/ WGetBatchJob(1)
    \/ WGetMapProject(1)
    \/ WSetProcessing(1)
    \/ WGeneratePDF(1)
    \/ WSetCompleted(1)
    \/ WSetUploaded(1)
    \/ WUpdateProgress(1)
    \/ WUpdateProgressFailed(1)
    \/ WFinalUpdate(1)
    \/ WCatch(1)
    \/ \E p \in DOMAIN mapProjects : \E settings \in SettingsValues :
          UpdateSettings(p, settings)

SpecMixed == Init /\ [][MixedNext]_vars

\* the grid and the crops of one image, on the client and on the server
InitGrid ==
    /\ mapProjects = <<>>
    /\ batchJobs = <<>>
    /\ batchReq = NewBatchRequest
    /\ files = <<>>
    /\ startReq = [r \in StartIds |-> [pc |-> "new", seen |-> "none", resp |-> 0]]
    /\ worker = [r \in StartIds |-> IdleWorker]
    /\ genReq = [g \in GenIds |-> NewRequest]
    /\ calibrations = 0
    /\ image \in Images
    /\ gridLayout = NoLayout
    /\ pageIndex = 0
    /\ crops = <<>>
    /\ doc = NoDoc
    /\ fileInfo = NoFileInfo

GridNext ==
    \/ ClientLayout
    \/ ServerLayout
    \/ ClientCrop
    \/ ServerCropNext
    \/ ServerGuide
    \/ ShowSuccess

SpecGrid == InitGrid /\ [][GridNext]_vars

\* the start requests of the specification with fairness
LiveStarts == 1..MaxLiveStart

\* the next step of the handler of start request r and of the worker it starts
WorkerStep(r) ==
    \/ StartRun(r)
    \/ WGetBatchJob(r)
    \/ WGetMapProject(r)
    \/ WSetProcessing(r)
    \/ WGeneratePDF(r)
    \/ WSetCompleted(r)
    \/ WSetUploaded(r)
    \/ WUpdateProgress(r)
    \/ WUpdateProgressFailed(r)
    \/ WFinalUpdate(r)
    \/ WCatch(r)

\* a batch that is never deleted
LiveNext ==
    \/ BatchReceive
    \/ BatchFile
    \/ BatchCreateJob
    \/ \E r \in LiveStarts : StartRead(r)
    \/ \E r \in LiveStarts : WorkerStep(r)

\* the host keeps running: every awaited call of a started worker returns
\* and its continuation is run
Fairness == \A r \in LiveStarts : WF_vars(WorkerStep(r))

SpecLive == Init /\ [][LiveNext]_vars /\ Fairness

TypeOK ==
    /\ DOMAIN mapProjects \subseteq FileIds \cup {UploadId}
    /\ DOMAIN batchJobs \subseteq {JobId}
    /\ batchReq.pc \in {"new", "file", "createBatchJob", "done"}
    /\ batchReq.resp \in {0, 200, 400, 500}
    /\ Len(files) <= MaxFiles

\* ================================================================ claims
JobExists == JobId \in DOMAIN batchJobs
Job == batchJobs[JobId]
Terminal == {"completed", "failed"}
Started == {r \in StartIds : worker[r].pc # "idle"}

\* C1: the persisted counters of the job always satisfy
\* processedFiles + failedFiles <= totalFiles
C1_CountersBounded ==
    JobExists => Job.processedFiles + Job.failedFiles <= Job.totalFiles

\* C1 witness: a running job observed mid-run with a processed and a failed
\* member persisted and a member still to come
C1_Witness ==
    /\ JobExists
    /\ Job.status = "running"
    /\ Job.processedFiles >= 1
    /\ Job.failedFiles >= 1
    /\ Job.processedFiles + Job.failedFiles < Job.totalFiles

\* C2: whenever the persisted status is completed or failed,
\* processedFiles + failedFiles equals totalFiles
C2_TerminalEquality ==
    (JobExists /\ Job.status \in Terminal)
        => Job.processedFiles + Job.failedFiles = Job.totalFiles

\* C3: the persisted status only changes pending -> running,
\* running -> completed or running -> failed
C3_ForwardOnly ==
    [][ (JobExists /\ JobExists' /\ Job'.status # Job.status)
          => <<Job.status, Job'.status>> \in
                {<<"pending", "running">>, <<"running", "completed">>,
                 <<"running", "failed">>} ]_vars

\* C4: at most one processBatchJob worker is ever started for the job
C4_SingleWorker ==
    Cardinality(Started) <= 1

\* C5: a start request that reads a status other than pending is answered
\* 400, starts no worker and changes neither the job nor a project
C5_RejectedStart ==
    /\ [](\A r \in StartIds :
            startReq[r].seen \in {"running", "completed", "failed"}
              => /\ startReq[r].pc = "done"
                 /\ startReq[r].resp = 400
                 /\ worker[r].pc = "idle")
    /\ [][ \A r \in StartIds :
             ( /\ startReq[r].pc = "new"
               /\ startReq'[r].pc # "new"
               /\ startReq'[r].seen # "undefined"
               /\ JobExists
               /\ Job.status # "pending" )
             => /\ startReq'[r].resp = 400
                /\ startReq'[r].pc = "done"
                /\ batchJobs' = batchJobs
                /\ mapProjects' = mapProjects
                /\ worker' = worker ]_vars

\* C5 witness: a start request was rejected on a job that had already run
\* to a terminal status
C5_Witness ==
    \E r \in StartIds :
        /\ startReq[r].resp = 400
        /\ startReq[r].seen \in Terminal
        /\ worker[r].pc = "idle"
        /\ JobExists

LoopBody == {"setProcessing", "generatePDF", "setCompleted", "setUploaded",
             "updateProgress", "updateProgressFailed"}

\* C6: a worker enters the loop body once per member, in the order of
\* projectIds, and reaches the end of the loop only after every member,
\* whatever the outcome of the members before
C6_EveryMemberInOrder ==
    \A r \in StartIds :
        LET w == worker[r] IN
        /\ Len(w.handled) <= Len(w.projectIds)
        /\ w.handled = SubSeq(w.projectIds, 1, Len(w.handled))
        /\ w.pc \in LoopBody => Len(w.handled) = w.i
        /\ w.pc = "getMapProject" => Len(w.handled) = w.i - 1
        /\ w.pc \in {"finalUpdate", "resolved"} => w.handled = w.projectIds
        /\ w.processedCount + w.failedCount <= Len(w.handled)

\* C6 witness: the first member failed and the worker is generating the
\* document of the second member
C6_Witness ==
    \E r \in StartIds :
        /\ worker[r].pc = "generatePDF"
        /\ worker[r].i = 2
        /\ worker[r].failedCount = 1
        /\ worker[r].handled = SubSeq(worker[r].projectIds, 1, 2)

\* C7: between two members (and after the last one) the persisted
\* processedFiles + failedFiles equals the number of members handled
C7_PersistedAfterEachMember ==
    \A r \in StartIds :
        (JobExists /\ worker[r].pc \in {"getMapProject", "finalUpdate"})
            => Job.processedFiles + Job.failedFiles = worker[r].i - 1

\* C8: when the loop has ended and the final update has returned, the job
\* has the counters of the loop and status completed if processedFiles > 0
\* and failed otherwise
C8_FinalStatus ==
    [][ \A r \in StartIds :
          (worker[r].pc = "finalUpdate" /\ worker'[r].pc = "resolved" /\ JobExists)
            => /\ JobExists'
               /\ Job'.processedFiles = worker[r].processedCount
               /\ Job'.failedFiles = worker[r].failedCount
               /\ Job'.processedFiles > 0 => Job'.status = "completed"
               /\ Job'.processedFiles = 0 => Job'.status = "failed"
               /\ Job'.completedAt # NULL ]_vars

\* C9: errorMessage is non-null only if failedFiles = totalFiles, and
\* completedAt is non-null only if the status is completed or failed
C9_ErrorOnlyWhenAllFailed ==
    JobExists =>
        /\ Job.errorMessage # NULL => Job.failedFiles = Job.totalFiles
        /\ Job.completedAt # NULL => Job.status \in Terminal

\* C10: a generation request that reads a status other than calibrated is
\* answered 400 and changes neither the status nor the pdfUrl of a project
C10_RejectedGenerate ==
    /\ [](\A g \in GenIds :
            genReq[g].seen \in {"uploaded", "processing", "completed"}
              => (genReq[g].pc = "done" /\ genReq[g].resp = 400))
    /\ [][ \A g \in GenIds : \A p \in DOMAIN mapProjects :
             ( /\ genReq[g].pc = "new"
               /\ genReq'[g].pc # "new"
               /\ genReq'[g].id = p
               /\ genReq'[g].seen # "undefined"
               /\ mapProjects[p].status # "calibrated" )
             => /\ genReq'[g].resp = 400
                /\ genReq'[g].pc = "done"
                /\ mapProjects' = mapProjects ]_vars

\* C10 witness: scenario E, generation was requested for a project in
\* status uploaded and the project is still uploaded without a pdfUrl
C10_Witness ==
    \E g \in GenIds :
        /\ genReq[g].resp = 400
        /\ genReq[g].seen = "uploaded"
        /\ mapProjects[genReq[g].id].status = "uploaded"
        /\ mapProjects[genReq[g].id].pdfUrl = NULL

\* C11: when generation fails for a project in processing, the status
\* written is uploaded and the pdfUrl is left as it was, on the single-item
\* path and on the batch path
C11_FailureRevertsToUploaded ==
    [][ /\ \A g \in GenIds :
             ( /\ genReq[g].pc = "catch"
               /\ genReq'[g].pc = "done"
               /\ genReq[g].id \in DOMAIN mapProjects
               /\ mapProjects[genReq[g].id].status = "processing" )
             => /\ mapProjects'[genReq[g].id].status = "uploaded"
                /\ mapProjects'[genReq[g].id].pdfUrl = mapProjects[genReq[g].id].pdfUrl
        /\ \A r \in StartIds :
             ( /\ worker[r].pc = "setUploaded"
               /\ worker'[r].pc = "updateProgressFailed"
               /\ worker[r].projectIds[worker[r].i] \in DOMAIN mapProjects
               /\ mapProjects[worker[r].projectIds[worker[r].i]].status = "processing" )
             => /\ mapProjects'[worker[r].projectIds[worker[r].i]].status = "uploaded"
                /\ mapProjects'[worker[r].projectIds[worker[r].i]].pdfUrl
                     = mapProjects[worker[r].projectIds[worker[r].i]].pdfUrl ]_vars

\* C12: in every reachable state the pdfUrl of a project is set only if
\* the status of the project is completed
C12_PdfOnlyWhenCompleted ==
    \A p \in DOMAIN mapProjects :
        mapProjects[p].pdfUrl # NULL => mapProjects[p].status = "completed"

\* C13: a write of status processing, by a generation request or by a
\* batch worker, is made only on a project whose status is calibrated
C13_ProcessingOnlyFromCalibrated ==
    [][ /\ \A g \in GenIds :
             ( /\ genReq[g].pc = "setProcessing"
               /\ genReq'[g].pc = "generatePDF"
               /\ genReq[g].id \in DOMAIN mapProjects )
             => mapProjects[genReq[g].id].status = "calibrated"
        /\ \A r \in StartIds :
             ( /\ worker[r].pc = "setProcessing"
               /\ worker'[r].pc = "generatePDF"
               /\ worker[r].projectIds[worker[r].i] \in DOMAIN mapProjects )
             => mapProjects[worker[r].projectIds[worker[r].i]].status = "calibrated" ]_vars

\* the generation requests and the workers that have written processing for
\* project p and have not yet written the status that ends the run
ActiveRequests(p) ==
    {g \in GenIds : genReq[g].id = p
                    /\ genReq[g].pc \in {"generatePDF", "setCompleted", "catch"}}
ActiveWorkers(p) ==
    {r \in StartIds : /\ worker[r].pc \in {"generatePDF", "setCompleted", "setUploaded"}
                      /\ worker[r].projectIds[worker[r].i] = p}

\* C16: no project has two generation runs active at the same time
C16_OneRunPerProject ==
    \A p \in DOMAIN mapProjects :
        Cardinality(ActiveRequests(p)) + Cardinality(ActiveWorkers(p)) <= 1

\* C14: the settings a batch worker generates a member's document with are
\* the settings stored in the job at its creation
C14_BatchUsesJobSettings ==
    \A r \in StartIds :
        (JobExists /\ worker[r].pc = "generatePDF")
            => worker[r].settings = Job.settings

\* the files with valid pixel dimensions
UsableSet == {k \in 1..Len(files) : files[k]}

\* C15: once batch creation has answered, there is a project for exactly
\* the files with valid pixel dimensions; with no such file there is no
\* job; otherwise the job is created pending with zero counters, those
\* files in upload order as projectIds and their number as totalFiles
C15_BatchCreation ==
    /\ [](created =>
            /\ DOMAIN mapProjects \cap FileIds = UsableSet
            /\ UsableSet = {} => ~JobExists
            /\ JobExists =>
                 /\ Range(Job.projectIds) = UsableSet
                 /\ \A a, b \in 1..Len(Job.projectIds) :
                        a < b => Job.projectIds[a] < Job.projectIds[b]
                 /\ Job.totalFiles = Cardinality(UsableSet))
    /\ [][ (~created /\ created')
             => /\ UsableSet' # {} => JobExists'
                /\ JobExists' =>
                     /\ Job'.status = "pending"
                     /\ Job'.processedFiles = 0
                     /\ Job'.failedFiles = 0
                     /\ Job'.completedAt = NULL
                     /\ Job'.errorMessage = NULL ]_vars

\* n = ceil(w * s / p) for w, p > 0 and a scale s > 0, taken of the exact
\* product: n is the least integer with n * p >= w * s
IsCeil(n, w, s, p) ==
    LET exact == [sgn |-> s.sgn, m |-> BigMul(BigOfInt(w), s.m), e |-> s.e]
    IN /\ ExactDiff(Num(n * p), exact).sgn >= 0
       /\ ExactDiff(Num((n - 1) * p), exact).sgn < 0

\* C17: for W, H > 0, s > 0 and each of the eight paper formats P (with the
\* dimensions listed for P), the grid computed is pagesX = ceil(W*s / P.width),
\* pagesY = ceil(H*s / P.height), totalPages = pagesX * pagesY, and
\* pagesX >= 1, pagesY >= 1
C17_GridIsCeil ==
    (gridLayout # NoLayout /\ ValidImage /\ image.paperSize \in PaperNames) =>
        LET P == paperSizes[image.paperSize] IN
        /\ IsCeil(gridLayout.pagesX, image.imageWidth, image.scale, P.width)
        /\ IsCeil(gridLayout.pagesY, image.imageHeight, image.scale, P.height)
        /\ gridLayout.totalPages = gridLayout.pagesX * gridLayout.pagesY
        /\ gridLayout.pagesX >= 1
        /\ gridLayout.pagesY >= 1

\* C18: for W <= 0, H <= 0 or s <= 0 the grid calculation fails: no grid is
\* returned, on the client or in generatePDF
C18_InvalidDimensionsFail ==
    ~ValidImage => gridLayout.side \notin {"client", "server"}

CropSet == {crops[k] : k \in 1..Len(crops)}

\* C19: for W, H > 0 and s > 0 the crop rectangle of every tile of the grid
\* lies inside the image
C19_CropInsideImage ==
    ValidImage =>
        \A c \in CropSet :
            /\ c.left >= 0
            /\ c.top >= 0
            /\ c.left + c.width <= image.imageWidth
            /\ c.top + c.height <= image.imageHeight

\* C19 witness: the client has cropped a tile of the last column that is
\* narrower than a page and ends at the right edge of the image
C19_Witness ==
    /\ ValidImage
    /\ gridLayout.side = "client"
    /\ \E c \in CropSet :
          /\ c.left > 0
          /\ c.left + c.width = image.imageWidth
          /\ c.width < MathFloor(Div(Num(gridLayout.pageSize.width), image.scale))
          /\ c.width >= 1

\* every tile of the grid has been cropped
AllCropped ==
    /\ gridLayout # NoLayout
    /\ ValidImage
    /\ HasSize(gridLayout.pageSize)
    /\ pageIndex = gridLayout.totalPages

Covered(px, py) ==
    \E c \in CropSet :
        /\ c.left <= px /\ px < c.left + c.width
        /\ c.top <= py /\ py < c.top + c.height

\* If some pixel is in no crop, then so is a pixel whose column is 0 or the
\* column just right of a crop and whose row is 0 or the row just below a
\* crop (go left, then up, from the pixel to the first pixel in no crop).
CornerColumns ==
    ({0} \cup {c.left + c.width : c \in CropSet}) \cap 0..(image.imageWidth - 1)
CornerRows ==
    ({0} \cup {c.top + c.height : c \in CropSet}) \cap 0..(image.imageHeight - 1)

\* C20: once every tile is cropped, every pixel of the image lies in the
\* crop of at least one tile and no crop extends outside the image
C20_CropsCoverImage ==
    AllCropped =>
        /\ \A px \in CornerColumns : \A py \in CornerRows : Covered(px, py)
        /\ \A c \in CropSet :
              /\ c.left >= 0 /\ c.left + c.width <= image.imageWidth
              /\ c.top >= 0 /\ c.top + c.height <= image.imageHeight

IsMap(page) == page.kind = "map"
IsBackside(page) == page.kind = "backside"
IsGuide(page) == page.kind = "guide"
MapPages == SelectSeq(doc.pages, IsMap)
BacksidePages == SelectSeq(doc.pages, IsBackside)
GuidePages == SelectSeq(doc.pages, IsGuide)
Generated == doc.state = "done"
Tiles == gridLayout.pagesX * gridLayout.pagesY

\* the number of the k-th map page of the document
NumberOfMapPage(k) ==
    PageNumber(MapPages[k].x, MapPages[k].y, gridLayout.pagesX)

\* C21: the page numbers y * pagesX + x + 1 of the tiles, in the order the
\* tile loop emits them, are 1, 2, 3, ... (each tile one more than the tile
\* before), and for a generated document they are exactly 1..pagesX*pagesY
C21_PageNumbersRowMajor ==
    /\ doc.state \in {"open", "done"} =>
          \A k \in 1..Len(MapPages) : NumberOfMapPage(k) = k
    /\ Generated =>
          /\ HasSize(gridLayout.pageSize)
          /\ {NumberOfMapPage(k) : k \in 1..Len(MapPages)} = 1..Tiles

\* C22: a generated document has pagesX*pagesY - 1 backside pages when
\* generateBacksideNumbers is enabled, one directly after each map page
\* except the last and bearing that map page's number, and none when disabled
C22_BacksidePages ==
    Generated =>
        /\ HasSize(gridLayout.pageSize)
        /\ Len(BacksidePages) =
              IF image.generateBacksideNumbers THEN Tiles - 1 ELSE 0
        /\ \A i \in 1..Len(doc.pages) :
              IsBackside(doc.pages[i]) =>
                  /\ i > 1
                  /\ IsMap(doc.pages[i - 1])
                  /\ doc.pages[i].number =
                        PageNumber(doc.pages[i - 1].x, doc.pages[i - 1].y,
                                   gridLayout.pagesX)
                  /\ doc.pages[i].number # Tiles
        /\ image.generateBacksideNumbers =>
              \A i \in 1..Len(doc.pages) :
                  (IsMap(doc.pages[i])
                   /\ PageNumber(doc.pages[i].x, doc.pages[i].y,
                                 gridLayout.pagesX) # Tiles)
                      => (i < Len(doc.pages) /\ IsBackside(doc.pages[i + 1]))

\* C23: a generated document has
\* totalPages + (generateBacksideNumbers ? totalPages - 1 : 0) + 1 pages
C23_PageCount ==
    Generated =>
        /\ HasSize(gridLayout.pageSize)
        /\ Len(doc.pages) =
              gridLayout.totalPages
              + (IF image.generateBacksideNumbers
                 THEN gridLayout.totalPages - 1 ELSE 0)
              + 1

\* C24: a generated document ends with its only assembly guide page, which
\* has pagesX*pagesY cells, one for each map page, the cell of column x and
\* row y labelled y * pagesX + x + 1
C24_AssemblyGuide ==
    Generated =>
        LET guide == doc.pages[Len(doc.pages)] IN
        /\ IsGuide(guide)
        /\ Len(GuidePages) = 1
        /\ HasSize(gridLayout.pageSize)
        /\ Len(guide.cells) = Tiles
        /\ \A i \in 1..Len(guide.cells) :
              guide.cells[i].label =
                  guide.cells[i].y * gridLayout.pagesX + guide.cells[i].x + 1
        /\ {<<guide.cells[i].x, guide.cells[i].y, guide.cells[i].label>> :
                i \in 1..Len(guide.cells)}
           = {<<MapPages[k].x, MapPages[k].y, NumberOfMapPage(k)>> :
                k \in 1..Len(MapPages)}

\* C25: when processBatchJob itself throws, the step of the batch-level
\* handler leaves the job (if it still exists) failed, with the message of
\* the error recorded and completedAt set, so not in running
C25_OrchestratorError ==
    [][ \A r \in StartIds :
          (worker[r].pc = "catch" /\ worker'[r].pc = "rejected" /\ JobExists')
              => /\ Job'.status = "failed"
                 /\ Job'.errorMessage = NotFoundMessage
                 /\ Job'.completedAt # NULL ]_vars

\* C26: without deletion and with every step of the worker eventually
\* taken, a job in status running eventually has status completed or failed
C26_EventuallyTerminal ==
    (JobExists /\ Job.status = "running")
        ~> (JobExists /\ Job.status \in Terminal)

\* C27: for W, H >= 1 and s > 0, the crop of every tile of the grid has
\* width >= 1 and height >= 1
C27_NoEmptyCrop ==
    ValidImage => \A c \in CropSet : c.width >= 1 /\ c.height >= 1

\* the dimensions a paper name stands for: its own if it is one of the
\* eight names, those of a4 otherwise
ListedSize(name) ==
    IF name \in PaperNames THEN paperSizes[name] ELSE paperSizes["a4"]

\* C28: a paper name resolves to the same dimensions, its listed ones (a4's
\* for an unknown name), on the client and on the server, and both compute
\* the same pagesX and pagesY for the image
C28_SamePaperTable ==
    gridLayout # NoLayout =>
        LET client == calculateGridLayout(image.imageWidth, image.imageHeight,
                                          image.scale, image.paperSize)
            server == ServerGrid(image.imageWidth, image.imageHeight,
                                 image.scale, image.paperSize)
        IN /\ gridLayout.pageSize = ListedSize(image.paperSize)
           /\ client.pageSize = server.pageSize
           /\ client.pagesX = server.pagesX
           /\ client.pagesY = server.pagesY

\* C29: the page count on the success screen is the number of pages of the
\* document generated for the project
C29_ShownPageCount ==
    (Generated /\ fileInfo.shown) =>
        /\ HasSize(Lookup(PAPER_SIZES, image.paperSize))
        /\ fileInfo.pageCount = Len(doc.pages)

\* the job has been created and deleted
Deleted == batchReq.resp = 200 /\ ~JobExists

\* the workers that have been started and have not ended
RunningWorkers ==
    {r \in StartIds : worker[r].pc \notin {"idle", "resolved", "rejected"}}

\* the positions of a worker that is past its read of the job
PastRead == LoopBody \cup {"getMapProject", "finalUpdate"}

\* the workers that are past their read of the job
InLoop == {r \in StartIds : worker[r].pc \in PastRead}

\* C30: a deleted job stays deleted whatever its workers write afterwards,
\* and no step of a running worker throws because the job is missing
C30_DeleteWhileRunning ==
    [][ /\ Deleted => ~JobExists'
        /\ \A r \in RunningWorkers :
              (~JobExists /\ worker[r].pc # "catch") => worker'[r].pc # "catch"
      ]_vars

\* C30 as it holds: a deleted job stays deleted whatever its workers write
\* afterwards, and a worker that is past its read of the job goes on to the
\* end of processBatchJob without throwing
C30_DeletedForGood ==
    [][ /\ Deleted => ~JobExists'
        /\ \A r \in InLoop :
              ~JobExists => worker'[r].pc \in PastRead \cup {"resolved"}
      ]_vars

\* C30 witness: the job was deleted while a worker was in its loop; the
\* worker has completed a member and is about to write its final update
C30_Witness ==
    /\ Deleted
    /\ \E r \in StartIds :
          /\ worker[r].pc = "finalUpdate"
          /\ worker[r].processedCount >= 1
====
